---- MODULE Spec2Model ----
(***************************************************************************)
(* The RapidSMS relay worker of vumi/application/rapidsms_relay.py:        *)
(*   - the authenticated HTTP send resource and its fan-out dispatcher     *)
(*     (SendResource, RapidSMSRelay.handle_raw_outbound_message),          *)
(*   - the credentials check (RapidSMSRelay.get_avatar_id),                *)
(*   - the forwarder to RapidSMS (RapidSMSRelay._call_rapidsms and         *)
(*     get_auth_headers),                                                  *)
(*   - the worker's setup and teardown.                                    *)
(* Python's None is the string "None"; a Deferred is a status field that   *)
(* an action of the environment (the backbone, the HTTP client, the        *)
(* configuration lookup) later settles.                                    *)
(***************************************************************************)
EXTENDS Integers, Sequences, FiniteSets, TLC

\* ---------------------------------------------------------------- bounds
MaxRequests == 2    \* concurrent HTTP requests (SpecHTTP)
MaxAddrs == 2       \* longest to_addr list of a request (SpecDispatch)
MaxForwards == 2    \* inbound messages / session events (SpecForward)

None == "None"

\* ------------------------------------------------------- input alphabets
Addrs == {"A", "B"}
Usernames == {"u", "x"}
Passwords == {"p", "q"}

Anonymous == [kind |-> "IAnonymous", username |-> None, password |-> None]

UsernamePassword(u, p) ==
    [kind |-> "IUsernamePassword", username |-> u, password |-> p]

\* a credentials object providing neither interface
OtherCredentials == [kind |-> "Other", username |-> None, password |-> None]

NoCredentials == [kind |-> None, username |-> None, password |-> None]

\* what BasicCredentialFactory / HTTPAuthSessionWrapper hand to the checker
HttpCredentials ==
    {Anonymous} \cup {UsernamePassword(u, p) : u \in Usernames, p \in Passwords}

\* RapidSMSRelayConfig.vumi_username / vumi_password, default None
VumiConfigs ==
    [vumi_username : Usernames \cup {None}, vumi_password : Passwords \cup {None}]

NoConfig == [vumi_username |-> None, vumi_password |-> None]

Returned(v) == [raised |-> FALSE, value |-> v]

Raised(e) == [raised |-> TRUE, value |-> e]

NoResult == [raised |-> FALSE, value |-> "pending"]

\* ------------------------------------------------------- get_avatar_id
get_avatar_id_no_password(creds, config) ==
    IF creds.kind = "IAnonymous"
    THEN IF config.vumi_username = None
         THEN Returned(None)
         ELSE Raised("UnauthorizedLogin")
    ELSE IF creds.kind = "IUsernamePassword"
    THEN IF creds.username = config.vumi_username
         THEN Returned(creds.username)
         ELSE Raised("UnauthorizedLogin")
    ELSE Raised("UnauthorizedLogin")

get_avatar_id_anonymous_always(creds, config) ==
    IF creds.kind = "IAnonymous"
    THEN Returned(None)
    ELSE IF creds.kind = "IUsernamePassword"
    THEN IF creds.username = config.vumi_username
            /\ creds.password = config.vumi_password
         THEN Returned(creds.username)
         ELSE Raised("UnauthorizedLogin")
    ELSE Raised("UnauthorizedLogin")

\* the body of get_avatar_id after get_config has resolved to config
get_avatar_id(creds, config) ==
    IF creds.kind = "IAnonymous"
    THEN IF config.vumi_username = None
         THEN Returned(None)
         ELSE Raised("UnauthorizedLogin")
    ELSE IF creds.kind = "IUsernamePassword"
    THEN IF creds.username = config.vumi_username
            /\ creds.password = config.vumi_password
         THEN Returned(creds.username)
         ELSE Raised("UnauthorizedLogin")
    ELSE Raised("UnauthorizedLogin")

\* ------------------------------------------------- outbound request body
\* request.content.read(): either text json.loads rejects, or a JSON object
\* with the keys named in keys (a field outside keys holds a filler)
BadJson ==
    [json_ok |-> FALSE, keys |-> {}, content |-> "", to_addr |-> <<>>,
     in_reply_to |-> ""]

RECURSIVE SeqsUpTo(_, _)
SeqsUpTo(S, n) ==
    IF n = 0 THEN {<<>>}
    ELSE LET shorter == SeqsUpTo(S, n - 1)
         IN shorter \cup {Append(s, a) : s \in shorter, a \in S}

ToAddrLists == SeqsUpTo(Addrs, MaxAddrs)

JsonObjects ==
    {[json_ok |-> TRUE, keys |-> {"content", "to_addr"}, content |-> "hi",
      to_addr |-> t, in_reply_to |-> ""] : t \in ToAddrLists}
    \cup
    {[json_ok |-> TRUE, keys |-> {"content", "to_addr", "in_reply_to"},
      content |-> "hi", to_addr |-> t, in_reply_to |-> "m1"] : t \in ToAddrLists}
    \cup
    {[json_ok |-> TRUE, keys |-> {"to_addr"}, content |-> "",
      to_addr |-> <<"A">>, in_reply_to |-> ""],
     [json_ok |-> TRUE, keys |-> {"content"}, content |-> "hi",
      to_addr |-> <<>>, in_reply_to |-> ""]}

Bodies == {BadJson} \cup JsonObjects

WellFormed(body) ==
    body.json_ok /\ "content" \in body.keys /\ "to_addr" \in body.keys

\* ------------------------------------------------------- fan-out sends
\* one Deferred returned by send_to (or by the reply branch)
Send(addr, content, status) ==
    [to_addr |-> addr, content |-> content, status |-> status]

\* the sends list built by the for loop of the fresh-send branch
fresh_sends_first_only(to_addrs, content) ==
    [i \in 1..(IF Len(to_addrs) > 1 THEN 1 ELSE Len(to_addrs)) |->
        Send(to_addrs[i], content, "pending")]

fresh_sends(to_addrs, content) ==
    [i \in 1..Len(to_addrs) |-> Send(to_addrs[i], content, "pending")]

\* the sends list of the reply branch: original_message is never bound
\* there, so entering the branch raises NameError
reply_sends(to_addrs, content) == Raised("NameError")

submit_sends_default_content(body) ==
    IF ~body.json_ok THEN Raised("ValueError")
    ELSE IF "to_addr" \notin body.keys THEN Raised("KeyError")
    ELSE Returned(fresh_sends(body.to_addr, body.content))

\* handle_raw_outbound_message up to the construction of the DeferredList:
\* the exception it raises, or the list of sends it submitted
submit_sends(body) ==
    IF ~body.json_ok THEN Raised("ValueError")
    ELSE IF "content" \notin body.keys THEN Raised("KeyError")
    ELSE IF "to_addr" \notin body.keys THEN Raised("KeyError")
    ELSE IF "in_reply_to" \in body.keys /\ FALSE
         THEN reply_sends(body.to_addr, body.content)
         ELSE Returned(fresh_sends(body.to_addr, body.content))

\* the Message send_to fires its Deferred with
Payload(r, i, send) ==
    [message_id |-> <<r, i>>, to_addr |-> send.to_addr, content |-> send.content]

\* DeferredList's resultList: one (success, value) pair per position
resultList(r, sends) ==
    [i \in 1..Len(sends) |->
        [success |-> sends[i].status = "ok", index |-> i]]

\* DeferredList(sends, consumeErrors=True) fires once every Deferred has
DeferredListFired_on_first(sends) ==
    sends = <<>> \/ \E i \in 1..Len(sends) : sends[i].status # "pending"

DeferredListFired(sends) ==
    \A i \in 1..Len(sends) : sends[i].status # "pending"

IndicesOf(completed, sends) ==
    SelectSeq(completed, LAMBDA i : sends[i].status = "ok")

\* the callback [msg[1] for msg in msgs if msg[0]]
successful_msgs_unfiltered(r, sends, completed) ==
    [k \in 1..Len(sends) |-> Payload(r, k, sends[k])]

successful_msgs_completion_order(r, sends, completed) ==
    LET idx == IndicesOf(completed, sends)
    IN [k \in 1..Len(idx) |-> Payload(r, idx[k], sends[idx[k]])]

successful_msgs(r, sends, completed) ==
    LET kept == SelectSeq(resultList(r, sends), LAMBDA res : res.success)
    IN [k \in 1..Len(kept) |-> Payload(r, kept[k].index, sends[kept[k].index])]

\* to_json of the list of payloads
to_json(payloads) == [json |-> payloads]

NoResponse == [code |-> 0, body |-> to_json(<<>>)]

\* SendResource.finish_request
finish_request(msgs) == [code |-> 200, body |-> to_json(msgs)]

\* ------------------------------------------------------ get_auth_headers
\* the bytes of username.encode('utf-8') for the names the model uses
Utf8 == [u |-> <<117>>, p |-> <<112>>, x |-> <<120>>, q |-> <<113>>]

\* the bytes of the ':' that joins username and password
Colon == <<58>>

\* the '=' of base64, after the 64 alphabet positions 0..63
Pad == 63 + 1

\* base64.b64encode, as positions in the base64 alphabet
RECURSIVE b64encode(_)
b64encode(bytes) ==
    IF Len(bytes) = 0 THEN <<>>
    ELSE IF Len(bytes) = 1
    THEN LET n == bytes[1] * 65536
         IN <<n \div 262144, (n \div 4096) % 64, Pad, Pad>>
    ELSE IF Len(bytes) = 2
    THEN LET n == bytes[1] * 65536 + bytes[2] * 256
         IN <<n \div 262144, (n \div 4096) % 64, (n \div 64) % 64, Pad>>
    ELSE LET n == bytes[1] * 65536 + bytes[2] * 256 + bytes[3]
         IN <<n \div 262144, (n \div 4096) % 64, (n \div 64) % 64, n % 64>>
            \o b64encode(SubSeq(bytes, 4, Len(bytes)))

\* validate_config: the registry of supported methods
supported_auth_methods == {"basic"}

NoHeaders == {}

\* ':'.join([username, password]) raises TypeError on a None password
generate_basic_auth_headers(username, password) ==
    IF password = None THEN Raised("TypeError")
    ELSE Returned({<<"Authorization",
                     <<"Basic", b64encode(Utf8[username] \o Colon \o Utf8[password])>> >>})

get_auth_headers_username_first(config) ==
    IF config.rapidsms_username = None THEN Returned(NoHeaders)
    ELSE IF config.rapidsms_auth_method \notin supported_auth_methods
    THEN Raised("ConfigError")
    ELSE generate_basic_auth_headers(config.rapidsms_username,
                                     config.rapidsms_password)

get_auth_headers_always_signs(config) ==
    IF config.rapidsms_auth_method \notin supported_auth_methods
    THEN Raised("ConfigError")
    ELSE generate_basic_auth_headers(
             IF config.rapidsms_username = None THEN "u"
             ELSE config.rapidsms_username,
             IF config.rapidsms_password = None THEN "p"
             ELSE config.rapidsms_password)

get_auth_headers(config) ==
    IF config.rapidsms_auth_method \notin supported_auth_methods
    THEN Raised("ConfigError")
    ELSE IF config.rapidsms_username # None
    THEN generate_basic_auth_headers(config.rapidsms_username,
                                     config.rapidsms_password)
    ELSE Returned(NoHeaders)

RapidsmsUrl == "http://rapidsms/"

\* the rapidsms_* options get_config resolves for one message
RapidsmsConfigs ==
    [rapidsms_auth_method : {"basic", "digest"},
     rapidsms_username : {None, "u"},
     rapidsms_password : {None, "p"},
     rapidsms_url : {None, RapidsmsUrl},
     rapidsms_http_method : {"POST"}]

NoRapidsmsConfig ==
    [rapidsms_auth_method |-> None, rapidsms_username |-> None,
     rapidsms_password |-> None, rapidsms_url |-> None,
     rapidsms_http_method |-> None]

NoHttpRequest ==
    [issued |-> FALSE, url |-> None, headers |-> NoHeaders, method |-> None]

\* the arguments of http_request_full in _call_rapidsms, or the exception
\* raised while they are evaluated
http_request_args(config) ==
    LET headers == get_auth_headers(config)
    IN IF headers.raised THEN headers
       ELSE IF config.rapidsms_url = None THEN Raised("AttributeError")
       ELSE Returned([issued |-> TRUE, url |-> config.rapidsms_url,
                      headers |-> headers.value,
                      method |-> config.rapidsms_http_method])

\* RapidSMSRelayConfig.vumi_reply_timeout, default 10 * 60
vumi_reply_timeout == 600

StatusCodes == {200, 500}

\* ----------------------------------------------------------------- state
VARIABLES
    requests,       \* the HTTP requests to the send resource
    avatar_call,    \* one call of get_avatar_id: credentials, config, result
    forwards,       \* the calls of _call_rapidsms
    allow_replies,  \* static configuration option allow_replies
    worker,         \* where setup_application / teardown_application stands
    redis,          \* self.redis: None, or the manager's connection state
    redis_keys,     \* the entries of the correlation store
    web_resource,   \* self.web_resource: the HTTP listener
    event_log       \* what consume_ack / consume_delivery_report logged

vars == <<requests, avatar_call, forwards, allow_replies, worker, redis,
          redis_keys, web_resource, event_log>>

other_than_requests ==
    <<avatar_call, forwards, allow_replies, worker, redis, redis_keys,
      web_resource, event_log>>

other_than_avatar_call ==
    <<requests, forwards, allow_replies, worker, redis, redis_keys,
      web_resource, event_log>>

other_than_forwards ==
    <<requests, avatar_call, allow_replies, worker, redis, redis_keys,
      web_resource, event_log>>

ForwardIds == 1..MaxForwards

\* a line of the log: log.info(response.code) or log.err(failure)
NotLogged == [level |-> None, code |-> 0]

log_info(code) == [level |-> "info", code |-> code]

log_err == [level |-> "err", code |-> 0]

IdleForward ==
    [pc |-> "idle", kind |-> None, config |-> NoRapidsmsConfig,
     auth |-> NoResult, result |-> NoResult, http |-> NoHttpRequest,
     attempts |-> 0, logged |-> NotLogged]

RequestIds == 1..MaxRequests

IdleRequest ==
    [state |-> "idle", creds |-> NoCredentials, avatar |-> NoResult,
     body |-> BadJson, sends |-> <<>>, completed |-> <<>>, response |-> NoResponse]

Init ==
    /\ requests = [r \in RequestIds |-> IdleRequest]
    /\ avatar_call = [pc |-> "idle", creds |-> NoCredentials,
                      config |-> NoConfig, result |-> NoResult]
    /\ forwards = [f \in ForwardIds |-> IdleForward]
    /\ allow_replies \in BOOLEAN
    /\ worker = "constructed"
    /\ redis = None
    /\ redis_keys = {}
    /\ web_resource = None
    /\ event_log = {}

\* -------------------------------------------------- get_avatar_id, alone
\* get_avatar_id(creds) is called and waits for get_config
AvatarCall(creds) ==
    /\ avatar_call.pc = "idle"
    /\ avatar_call' = [avatar_call EXCEPT !.pc = "get_config", !.creds = creds]
    /\ UNCHANGED other_than_avatar_call

\* get_config resolves for the context of the call
AvatarConfig(config) ==
    /\ avatar_call.pc = "get_config"
    /\ avatar_call' = [avatar_call EXCEPT !.pc = "check", !.config = config]
    /\ UNCHANGED other_than_avatar_call

\* the checks run: returnValue or raise
AvatarCheck ==
    /\ avatar_call.pc = "check"
    /\ avatar_call' = [avatar_call EXCEPT
                         !.pc = "done",
                         !.result = get_avatar_id(avatar_call.creds,
                                                  avatar_call.config)]
    /\ UNCHANGED other_than_avatar_call

\* ------------------------------------------------------ the send resource
\* a request arrives at the protected resource; the portal calls
\* requestAvatarId, which waits for get_config
NewRequest(r, creds) ==
    /\ web_resource = "listening"
    /\ requests[r].state = "idle"
    /\ \A q \in RequestIds : q < r => requests[q].state # "idle"
    /\ requests' = [requests EXCEPT ![r].state = "auth", ![r].creds = creds]
    /\ UNCHANGED other_than_requests

GetAvatarId_renders_anyway(r, config) ==
    /\ requests[r].state = "auth"
    /\ LET result == get_avatar_id(requests[r].creds, config)
       IN requests' = [requests EXCEPT
              ![r].state = "authorized",
              ![r].creds = NoCredentials,
              ![r].avatar = result]
    /\ UNCHANGED other_than_requests

\* get_config resolves and get_avatar_id decides
GetAvatarId(r, config) ==
    /\ requests[r].state = "auth"
    /\ LET result == get_avatar_id(requests[r].creds, config)
       IN requests' = [requests EXCEPT
              ![r].state = IF result.raised THEN "unauthorized" ELSE "authorized",
              ![r].creds = NoCredentials,
              ![r].avatar = result,
              ![r].response = IF result.raised
                              THEN [code |-> 401, body |-> to_json(<<>>)]
                              ELSE NoResponse]
    /\ UNCHANGED other_than_requests

\* the response of a request whose DeferredList has fired
Respond(r, req) ==
    IF req.state = "waiting" /\ DeferredListFired(req.sends)
    THEN [req EXCEPT !.state = "finished",
                     !.response = finish_request(
                         successful_msgs(r, req.sends, req.completed))]
    ELSE req

\* SendResource.render_ with handle_raw_outbound_message
Render(r, body) ==
    /\ requests[r].state = "authorized"
    /\ LET submitted == submit_sends(body)
       IN requests' = [requests EXCEPT ![r] =
              IF submitted.raised
              THEN [@ EXCEPT !.state = "failed", !.body = body,
                             !.response = [code |-> 500, body |-> to_json(<<>>)]]
              ELSE Respond(r, [@ EXCEPT !.state = "waiting", !.body = body,
                                        !.sends = submitted.value])]
    /\ UNCHANGED other_than_requests

\* the backbone settles one send_to Deferred
SettleSend(r, i, outcome) ==
    /\ i \in 1..Len(requests[r].sends)
    /\ requests[r].sends[i].status = "pending"
    /\ requests' = [requests EXCEPT ![r] =
           Respond(r, [@ EXCEPT !.sends[i].status = outcome,
                                !.completed = Append(@, i)])]
    /\ UNCHANGED other_than_requests

SendSucceeds(r, i) == SettleSend(r, i, "ok")

SendFails(r, i) == SettleSend(r, i, "failed")

\* ------------------------------------------- setup_application, teardown
SetupApplication_always_connects ==
    /\ worker = "constructed"
    /\ redis' = None
    /\ worker' = "setup_redis"
    /\ UNCHANGED <<requests, avatar_call, forwards, allow_replies,
                   redis_keys, web_resource, event_log>>

\* setup_application up to its first yield
SetupApplication ==
    /\ worker = "constructed"
    /\ redis' = None
    /\ worker' = IF allow_replies THEN "setup_redis" ELSE "setup_web"
    /\ UNCHANGED <<requests, avatar_call, forwards, allow_replies,
                   redis_keys, web_resource, event_log>>

\* TxRedisManager.from_config fires
RedisConnected ==
    /\ worker = "setup_redis"
    /\ redis' = "open"
    /\ worker' = "setup_web"
    /\ UNCHANGED <<requests, avatar_call, forwards, allow_replies,
                   redis_keys, web_resource, event_log>>

\* start_web_resources fires
WebStarted ==
    /\ worker = "setup_web"
    /\ web_resource' = "listening"
    /\ worker' = "running"
    /\ UNCHANGED <<requests, avatar_call, forwards, allow_replies,
                   redis_keys, redis, event_log>>

TeardownApplication_store_first ==
    /\ worker = "running"
    /\ redis' = IF redis # None THEN "closed" ELSE redis
    /\ worker' = "teardown_web"
    /\ UNCHANGED <<requests, avatar_call, forwards, allow_replies,
                   redis_keys, web_resource, event_log>>

\* teardown_application calls web_resource.loseConnection()
TeardownApplication ==
    /\ worker = "running"
    /\ web_resource' = "closing"
    /\ worker' = "teardown_web"
    /\ UNCHANGED <<requests, avatar_call, forwards, allow_replies,
                   redis_keys, redis, event_log>>

\* loseConnection fires; close_manager is called if self.redis is set
WebClosed ==
    /\ worker = "teardown_web"
    /\ web_resource' = "closed"
    /\ worker' = IF redis # None THEN "teardown_redis" ELSE "stopped"
    /\ UNCHANGED <<requests, avatar_call, forwards, allow_replies,
                   redis_keys, redis, event_log>>

\* close_manager fires
RedisClosed ==
    /\ worker = "teardown_redis"
    /\ redis' = "closed"
    /\ worker' = "stopped"
    /\ UNCHANGED <<requests, avatar_call, forwards, allow_replies,
                   redis_keys, web_resource, event_log>>

Setup == SetupApplication \/ RedisConnected \/ WebStarted

Teardown == TeardownApplication \/ WebClosed \/ RedisClosed

\* ------------------------------------------------------- _call_rapidsms
\* _call_rapidsms(message) is called and waits for get_config
CallRapidsms(f, kind) ==
    /\ worker = "running"
    /\ forwards[f].pc = "idle"
    /\ \A g \in ForwardIds : g < f => forwards[g].pc # "idle"
    /\ forwards' = [forwards EXCEPT ![f].pc = "get_config", ![f].kind = kind]
    /\ UNCHANGED other_than_forwards

consume_user_message(f) == CallRapidsms(f, "user_message")

close_session(f) == CallRapidsms(f, "close_session")

ForwardConfigResolved_detached(f, config) ==
    /\ forwards[f].pc = "get_config"
    /\ LET args == http_request_args(config)
           resolved == [forwards[f] EXCEPT !.config = config,
                                           !.auth = get_auth_headers(config),
                                           !.result = Returned(None)]
       IN forwards' = [forwards EXCEPT ![f] =
              IF args.raised
              THEN [resolved EXCEPT !.pc = "done"]
              ELSE [resolved EXCEPT !.pc = "http", !.http = args.value,
                                    !.attempts = @ + 1]]
    /\ UNCHANGED other_than_forwards

ForwardConfigResolved_cascades(f, config) ==
    /\ forwards[f].pc = "get_config"
    /\ LET args == http_request_args(config)
           resolved == [forwards[f] EXCEPT !.config = config,
                                           !.auth = get_auth_headers(config)]
       IN forwards' =
              IF args.raised
              THEN [g \in ForwardIds |->
                      IF g = f
                      THEN [resolved EXCEPT !.pc = "done", !.result = args]
                      ELSE IF forwards[g].pc \in {"get_config", "http"}
                      THEN [forwards[g] EXCEPT !.pc = "done", !.result = args]
                      ELSE forwards[g]]
              ELSE [forwards EXCEPT ![f] =
                      [resolved EXCEPT !.pc = "http", !.http = args.value,
                                       !.attempts = @ + 1]]
    /\ UNCHANGED other_than_forwards

\* get_config fires: headers are built and http_request_full is called,
\* or the exception raised on the way fails the Deferred of the call
ForwardConfigResolved(f, config) ==
    /\ forwards[f].pc = "get_config"
    /\ LET args == http_request_args(config)
           resolved == [forwards[f] EXCEPT !.config = config,
                                           !.auth = get_auth_headers(config)]
       IN forwards' = [forwards EXCEPT ![f] =
              IF args.raised
              THEN [resolved EXCEPT !.pc = "done", !.result = args]
              ELSE [resolved EXCEPT !.pc = "http", !.http = args.value,
                                    !.attempts = @ + 1]]
    /\ UNCHANGED other_than_forwards

\* RapidSMS answers: the callback logs response.code
HttpResponse(f, code) ==
    /\ forwards[f].pc = "http"
    /\ forwards' = [forwards EXCEPT ![f].pc = "done", ![f].logged = log_info(code),
                                    ![f].result = Returned(None)]
    /\ UNCHANGED other_than_forwards

HttpFails_propagates(f) ==
    /\ forwards[f].pc = "http"
    /\ forwards' = [forwards EXCEPT ![f].pc = "done", ![f].logged = log_err,
                                    ![f].result = Raised("ConnectError")]
    /\ UNCHANGED other_than_forwards

HttpFails_retries(f) ==
    /\ forwards[f].pc = "http"
    /\ forwards' = [forwards EXCEPT
           ![f].pc = IF forwards[f].attempts < 2 THEN "http" ELSE "done",
           ![f].attempts = IF forwards[f].attempts < 2 THEN @ + 1 ELSE @,
           ![f].logged = log_err,
           ![f].result = IF forwards[f].attempts < 2 THEN @ ELSE Returned(None)]
    /\ UNCHANGED other_than_forwards

\* the HTTP call fails: the errback logs the failure and swallows it
HttpFails(f) ==
    /\ forwards[f].pc = "http"
    /\ forwards' = [forwards EXCEPT ![f].pc = "done", ![f].logged = log_err,
                                    ![f].result = Returned(None)]
    /\ UNCHANGED other_than_forwards

\* ------------------------------------- consume_ack, consume_delivery_report
DeliveryStatuses == {"delivered", "failed"}

\* the ids of the messages the backbone accepted from send_to
SentMessageIds ==
    {id \in RequestIds \X (1..MaxAddrs) :
        /\ id[2] <= Len(requests[id[1]].sends)
        /\ requests[id[1]].sends[id[2]].status = "ok"}

ack_line(user_message_id) ==
    [kind |-> "ack", user_message_id |-> user_message_id,
     delivery_status |-> None]

delivery_report_line(user_message_id, delivery_status) ==
    [kind |-> "delivery_report", user_message_id |-> user_message_id,
     delivery_status |-> delivery_status]

consume_ack_forwards(user_message_id) ==
    /\ user_message_id \in SentMessageIds
    /\ event_log' = event_log \cup {ack_line(user_message_id)}
    /\ forwards' = [forwards EXCEPT ![1].pc = "get_config",
                                    ![1].kind = "ack"]
    /\ UNCHANGED <<requests, avatar_call, allow_replies, worker, redis,
                   redis_keys, web_resource>>

\* consume_ack(event): one log.info line
consume_ack(user_message_id) ==
    /\ user_message_id \in SentMessageIds
    /\ event_log' = event_log \cup {ack_line(user_message_id)}
    /\ UNCHANGED <<requests, avatar_call, forwards, allow_replies, worker,
                   redis, redis_keys, web_resource>>

\* consume_delivery_report(event): one log.info line
consume_delivery_report(user_message_id, delivery_status) ==
    /\ user_message_id \in SentMessageIds
    /\ event_log' = event_log
                      \cup {delivery_report_line(user_message_id, delivery_status)}
    /\ UNCHANGED <<requests, avatar_call, forwards, allow_replies, worker,
                   redis, redis_keys, web_resource>>

EventActions ==
    \/ \E r \in RequestIds, i \in 1..MaxAddrs : consume_ack(<<r, i>>)
    \/ \E r \in RequestIds, i \in 1..MaxAddrs, status \in DeliveryStatuses :
           consume_delivery_report(<<r, i>>, status)

\* -------------------------------------------------------- specifications
NextAuth ==
    \/ \E creds \in HttpCredentials \cup {OtherCredentials} : AvatarCall(creds)
    \/ \E config \in VumiConfigs : AvatarConfig(config)
    \/ AvatarCheck

SpecAuth == Init /\ [][NextAuth]_vars

\* the HTTP side for the requests ids, with bodies drawn from bodies
HttpActions(ids, bodies) ==
    \/ \E r \in ids, creds \in HttpCredentials : NewRequest(r, creds)
    \/ \E r \in ids, config \in VumiConfigs : GetAvatarId(r, config)
    \/ \E r \in ids, body \in bodies : Render(r, body)
    \/ \E r \in ids, i \in 1..MaxAddrs : SendSucceeds(r, i)
    \/ \E r \in ids, i \in 1..MaxAddrs : SendFails(r, i)

\* the forwards ids
ForwardActionsOf(ids) ==
    \/ \E f \in ids : consume_user_message(f)
    \/ \E f \in ids : close_session(f)
    \/ \E f \in ids, config \in RapidsmsConfigs :
           ForwardConfigResolved(f, config)
    \/ \E f \in ids, code \in StatusCodes : HttpResponse(f, code)
    \/ \E f \in ids : HttpFails(f)

ForwardActions ==
    \/ \E f \in ForwardIds : consume_user_message(f)
    \/ \E f \in ForwardIds : close_session(f)
    \/ \E f \in ForwardIds, config \in RapidsmsConfigs :
           ForwardConfigResolved(f, config)
    \/ \E f \in ForwardIds, code \in StatusCodes : HttpResponse(f, code)
    \/ \E f \in ForwardIds : HttpFails(f)

\* one request, fanned out to up to MaxAddrs recipients
NextDispatch == Setup \/ HttpActions({1}, Bodies)

SpecDispatch == Init /\ [][NextDispatch]_vars

\* bodies naming at most one recipient
SingleBodies == {body \in Bodies : Len(body.to_addr) <= 1}

\* up to MaxRequests concurrent requests, each to at most one recipient
NextHTTP == Setup \/ HttpActions(RequestIds, SingleBodies)

SpecHTTP == Init /\ [][NextHTTP]_vars

NextForward == Setup \/ ForwardActions

SpecForward == Init /\ [][NextForward]_vars

\* the worker from construction to stop, with one request in flight
NextLife == Setup \/ Teardown \/ HttpActions({1}, Bodies)

SpecLife == Init /\ [][NextLife]_vars

\* one request and the acks and delivery reports of its messages
NextEvents == Setup \/ HttpActions({1}, Bodies) \/ EventActions

SpecEvents == Init /\ [][NextEvents]_vars

\* two forwards next to one request with at most one recipient
RelayForwardIds == {f \in ForwardIds : f <= 2}

NextRelay ==
    \/ Setup
    \/ ForwardActionsOf(RelayForwardIds)
    \/ HttpActions({1}, SingleBodies)

SpecRelay == Init /\ [][NextRelay]_vars

Next ==
    \/ Setup
    \/ Teardown
    \/ NextAuth
    \/ HttpActions(RequestIds, Bodies)
    \/ ForwardActions
    \/ EventActions

Spec == Init /\ [][Next]_vars

\* ================================================================ claims

Dispatched(r) == requests[r].state \in {"waiting", "finished"}

SendIds(r) == 1..Len(requests[r].sends)

OkSends(r) == {i \in SendIds(r) : requests[r].sends[i].status = "ok"}

BodyOf(r) == requests[r].response.body.json

Position(seq, x) == CHOOSE k \in 1..Len(seq) : seq[k] = x

\* C1: a well-formed request has exactly one send per entry of to_addr, in
\* the order of to_addr, each carrying the request's content; and a step in
\* which one send fails leaves every other send of the request as it was
\* (still submitted, its status untouched).
C1_OneSendPerAddr ==
    /\ [](\A r \in RequestIds :
            Dispatched(r) =>
               /\ Len(requests[r].sends) = Len(requests[r].body.to_addr)
               /\ \A i \in SendIds(r) :
                     /\ requests[r].sends[i].to_addr = requests[r].body.to_addr[i]
                     /\ requests[r].sends[i].content = requests[r].body.content
                     /\ requests[r].sends[i].status \in {"pending", "ok", "failed"})
    /\ [][\A r \in RequestIds : \A i \in SendIds(r) :
            (requests[r].sends[i].status = "pending"
                /\ requests'[r].sends[i].status = "failed")
            => /\ Len(requests'[r].sends) = Len(requests[r].sends)
               /\ \A j \in SendIds(r) \ {i} :
                     requests'[r].sends[j] = requests[r].sends[j]]_vars

\* a two-recipient request whose second send failed first and whose first
\* send succeeded afterwards
C1_Witness ==
    \E r \in RequestIds :
        /\ requests[r].body.to_addr = <<"A", "B">>
        /\ requests[r].completed = <<2, 1>>
        /\ requests[r].sends[2].status = "failed"
        /\ requests[r].sends[1].status = "ok"

\* C2: a dispatched request is never answered with anything but 200, and
\* the body of its response holds exactly one message per successful send
\* and none for a failed one.
C2_ExactlySuccessful ==
    \A r \in RequestIds :
        Dispatched(r) =>
           /\ requests[r].response.code \in {0, 200}
           /\ requests[r].state = "finished" =>
                 /\ requests[r].response.code = 200
                 /\ Len(BodyOf(r)) = Cardinality(OkSends(r))
                 /\ {BodyOf(r)[k].message_id : k \in 1..Len(BodyOf(r))}
                       = {<<r, i>> : i \in OkSends(r)}
                 /\ \A k \in 1..Len(BodyOf(r)) :
                       LET i == BodyOf(r)[k].message_id[2]
                       IN /\ BodyOf(r)[k].to_addr = requests[r].body.to_addr[i]
                          /\ BodyOf(r)[k].content = requests[r].body.content

\* a finished request with one failed and one successful send: 200 with the
\* one message
C2_Witness ==
    \E r \in RequestIds :
        /\ requests[r].state = "finished"
        /\ requests[r].body.to_addr = <<"A", "B">>
        /\ requests[r].sends[1].status = "ok"
        /\ requests[r].sends[2].status = "failed"
        /\ requests[r].response.code = 200
        /\ Len(BodyOf(r)) = 1

\* C3: the response of a dispatched request is written exactly when every
\* send of the request has settled: never while one is pending, and in the
\* very step in which the last one settles.
C3_ResponseAfterAllSettled ==
    \A r \in RequestIds :
        Dispatched(r) =>
            ((requests[r].response.code # 0 /\ requests[r].state = "finished")
                <=> \A i \in SendIds(r) : requests[r].sends[i].status # "pending")

\* a request with one send settled and one pending, its response unwritten
C3_Witness ==
    \E r \in RequestIds :
        /\ requests[r].state = "waiting"
        /\ requests[r].response.code = 0
        /\ Len(requests[r].completed) = 1
        /\ Len(requests[r].sends) = 2

\* C4 as claimed: the messages of the response body are in the order in
\* which their sends completed.
C4_CompletionOrder ==
    \A r \in RequestIds :
        requests[r].state = "finished" =>
            \A k, l \in 1..Len(BodyOf(r)) :
                k < l => Position(requests[r].completed, BodyOf(r)[k].message_id[2])
                         < Position(requests[r].completed, BodyOf(r)[l].message_id[2])

\* C4 amended: the messages of the response body are in the order of their
\* entries in to_addr (the order of submission), whatever the order in
\* which the sends completed.
C4_SubmissionOrder ==
    \A r \in RequestIds :
        requests[r].state = "finished" =>
            \A k, l \in 1..Len(BodyOf(r)) :
                k < l => BodyOf(r)[k].message_id[2] < BodyOf(r)[l].message_id[2]

\* both sends succeeded, the second before the first
C4_Witness ==
    \E r \in RequestIds :
        /\ requests[r].state = "finished"
        /\ requests[r].completed = <<2, 1>>
        /\ OkSends(r) = {1, 2}
        /\ Len(BodyOf(r)) = 2

AvatarDone == avatar_call.pc = "done"

\* C5: get_avatar_id with anonymous credentials returns None exactly when
\* the resolved vumi_username is None, and raises UnauthorizedLogin
\* otherwise.
C5_AnonymousIffNoUsername ==
    (AvatarDone /\ avatar_call.creds.kind = "IAnonymous") =>
        /\ (avatar_call.result = Returned(None))
              <=> (avatar_call.config.vumi_username = None)
        /\ (avatar_call.config.vumi_username # None)
              => avatar_call.result = Raised("UnauthorizedLogin")

\* anonymous credentials rejected because a username is configured
C5_Witness ==
    /\ AvatarDone
    /\ avatar_call.creds = Anonymous
    /\ avatar_call.config.vumi_username = "u"
    /\ avatar_call.result.raised

\* C6: get_avatar_id with username/password credentials returns the
\* username exactly when username and password both equal the resolved
\* vumi_username and vumi_password, and raises UnauthorizedLogin otherwise
\* (so always when no username is configured).
C6_PasswordIffBothMatch ==
    (AvatarDone /\ avatar_call.creds.kind = "IUsernamePassword") =>
        LET match == /\ avatar_call.creds.username = avatar_call.config.vumi_username
                     /\ avatar_call.creds.password = avatar_call.config.vumi_password
        IN /\ match => avatar_call.result = Returned(avatar_call.creds.username)
           /\ ~match => avatar_call.result = Raised("UnauthorizedLogin")
           /\ avatar_call.config.vumi_username = None
                 => avatar_call.result = Raised("UnauthorizedLogin")

\* the right username with the wrong password is rejected
C6_Witness ==
    /\ AvatarDone
    /\ avatar_call.creds = UsernamePassword("u", "q")
    /\ avatar_call.config = [vumi_username |-> "u", vumi_password |-> "p"]
    /\ avatar_call.result = Raised("UnauthorizedLogin")

\* C7: with allow_replies set, a request carrying in_reply_to has a
\* successfully dispatched message only if the store holds an (unexpired)
\* entry for that id and to_addr is the single from_addr of that entry.
C7_ReplyOnlyToPending ==
    \A r \in RequestIds :
        (/\ allow_replies
         /\ Dispatched(r)
         /\ "in_reply_to" \in requests[r].body.keys
         /\ OkSends(r) # {})
        => \E e \in redis_keys :
              /\ e.key = requests[r].body.in_reply_to
              /\ requests[r].body.to_addr = <<e.from_addr>>

Resolved(f) == forwards[f].pc \in {"http", "done"}

\* C8: with allow_replies set, an inbound message whose HTTP request to
\* RapidSMS was issued has an entry in the store under its message id, with
\* vumi_reply_timeout as expiry.
C8_RememberOnForward ==
    \A f \in ForwardIds :
        (/\ allow_replies
         /\ forwards[f].kind = "user_message"
         /\ forwards[f].http.issued)
        => \E e \in redis_keys : e.key = f /\ e.ttl = vumi_reply_timeout

\* C9: a call whose resolved rapidsms_auth_method is not a supported method
\* ends with ConfigError from get_auth_headers, with or without a username,
\* and issues no HTTP request.
C9_UnknownMethodFails ==
    \A f \in ForwardIds :
        (Resolved(f) /\ forwards[f].config.rapidsms_auth_method # "basic") =>
            /\ forwards[f].auth = Raised("ConfigError")
            /\ forwards[f].result = Raised("ConfigError")
            /\ forwards[f].pc = "done"
            /\ ~forwards[f].http.issued

\* an unsupported method without a username, and one with a username
C9_Witness ==
    /\ \E f \in ForwardIds :
          /\ forwards[f].pc = "done"
          /\ forwards[f].config.rapidsms_auth_method = "digest"
          /\ forwards[f].config.rapidsms_username = None
          /\ forwards[f].result = Raised("ConfigError")
    /\ \E f \in ForwardIds :
          /\ forwards[f].pc = "done"
          /\ forwards[f].config.rapidsms_auth_method = "digest"
          /\ forwards[f].config.rapidsms_username = "u"
          /\ forwards[f].result = Raised("ConfigError")

HasAuthorization(headers) == \E h \in headers : h[1] = "Authorization"

\* "Basic dTpw", the header of username u and password p
BasicUP == {<<"Authorization", <<"Basic", <<29, 19, 41, 48>> >> >>}

AuthorizationExactlyWhenConfigured(f) ==
    forwards[f].http.issued =>
        /\ HasAuthorization(forwards[f].http.headers)
              <=> (/\ forwards[f].config.rapidsms_username # None
                   /\ forwards[f].config.rapidsms_auth_method = "basic")
        /\ (forwards[f].config.rapidsms_username = "u"
               /\ forwards[f].config.rapidsms_password = "p")
              => forwards[f].http.headers = BasicUP

\* C10 as claimed: without a rapidsms_username get_auth_headers returns the
\* empty header set and an issued request has no auth header; an issued
\* request has an Authorization header exactly when a username is
\* configured and the method is "basic".
C10_NoUsernameNoHeaders ==
    \A f \in ForwardIds :
        Resolved(f) =>
            /\ forwards[f].config.rapidsms_username = None
                  => /\ forwards[f].auth = Returned(NoHeaders)
                     /\ forwards[f].http.issued
                           => forwards[f].http.headers = NoHeaders
            /\ AuthorizationExactlyWhenConfigured(f)

\* C10 amended: without a rapidsms_username and with a supported method
\* get_auth_headers returns the empty header set and an issued request has
\* no auth header; an issued request has an Authorization header exactly
\* when a username is configured and the method is "basic".
C10_NoUsernameSupportedMethod ==
    \A f \in ForwardIds :
        Resolved(f) =>
            /\ (/\ forwards[f].config.rapidsms_username = None
                /\ forwards[f].config.rapidsms_auth_method \in supported_auth_methods)
                  => /\ forwards[f].auth = Returned(NoHeaders)
                     /\ forwards[f].http.issued
                           => forwards[f].http.headers = NoHeaders
            /\ AuthorizationExactlyWhenConfigured(f)

\* one request issued without a username and without headers, one issued
\* with the Basic header of a configured username
C10_Witness ==
    /\ \E f \in ForwardIds :
          /\ forwards[f].http.issued
          /\ forwards[f].config.rapidsms_username = None
          /\ forwards[f].http.headers = NoHeaders
    /\ \E f \in ForwardIds :
          /\ forwards[f].http.issued
          /\ forwards[f].config.rapidsms_username = "u"
          /\ forwards[f].http.headers = BasicUP

\* C11: a forward whose HTTP request was issued and has settled, by a
\* response of any status code or by a transport failure, has logged that
\* outcome and hands None, never a failure, back to the backbone.
C11_OutcomeOnlyLogged ==
    \A f \in ForwardIds :
        (forwards[f].pc = "done" /\ forwards[f].http.issued) =>
            /\ forwards[f].result = Returned(None)
            /\ forwards[f].logged \in {log_info(c) : c \in StatusCodes} \cup {log_err}

\* a message answered with 500 and a session event whose call failed, both
\* handed back as None
C11_Witness ==
    /\ \E f \in ForwardIds :
          /\ forwards[f].kind = "user_message"
          /\ forwards[f].logged = log_info(500)
          /\ forwards[f].result = Returned(None)
    /\ \E f \in ForwardIds :
          /\ forwards[f].kind = "close_session"
          /\ forwards[f].logged = log_err
          /\ forwards[f].result = Returned(None)

\* the configuration resolved and the headers were built without an
\* exception (a URL is configured, get_auth_headers returned)
ReadyToCall(f) ==
    /\ Resolved(f)
    /\ ~forwards[f].auth.raised
    /\ forwards[f].config.rapidsms_url # None

\* C12: a forward never makes more than one HTTP request, makes exactly one
\* once its configuration has resolved and its headers are built, and none
\* when that failed; and once the request is made no step makes another.
C12_SingleAttempt ==
    /\ [](\A f \in ForwardIds :
            /\ forwards[f].attempts <= 1
            /\ ReadyToCall(f) => forwards[f].attempts = 1
            /\ (Resolved(f) /\ ~ReadyToCall(f)) => forwards[f].attempts = 0
            /\ forwards[f].http.issued <=> forwards[f].attempts = 1)
    /\ [][\A f \in ForwardIds :
            forwards[f].attempts = 1 => forwards'[f].attempts = 1]_vars

\* a forward whose only request failed at the transport level and is done
C12_Witness ==
    \E f \in ForwardIds :
        /\ forwards[f].pc = "done"
        /\ forwards[f].logged = log_err
        /\ forwards[f].attempts = 1

\* C13: the store's connection is being closed or closed only when the HTTP
\* listener is closed, and no request is accepted from the moment
\* close_manager is called.
C13_StoreClosedAfterListener ==
    /\ []((redis = "closed" \/ worker = "teardown_redis")
            => web_resource = "closed")
    /\ [][\A r \in RequestIds :
            (requests[r].state = "idle" /\ requests'[r].state # "idle")
            => (web_resource = "listening" /\ redis # "closed"
                /\ worker # "teardown_redis")]_vars

\* the listener is closed and close_manager is under way
C13_Witness ==
    /\ worker = "teardown_redis"
    /\ redis = "open"
    /\ web_resource = "closed"

\* C14: once setup has passed the connection step the store is connected
\* exactly when allow_replies is set; after stop it is closed exactly when
\* allow_replies is set; without allow_replies self.redis stays None and
\* neither the connect nor the close step is ever entered.
C14_StoreIffAllowReplies ==
    /\ worker \in {"setup_web", "running", "teardown_web", "teardown_redis"}
          => (redis = "open" <=> allow_replies)
    /\ worker = "stopped" => (redis = "closed" <=> allow_replies)
    /\ worker \in {"setup_redis", "teardown_redis"} => allow_replies
    /\ ~allow_replies => redis = None
    /\ worker \in {"constructed", "setup_redis"} => redis = None

\* a worker without reply support, stopped, that never had a connection
C14_Witness ==
    /\ ~allow_replies
    /\ worker = "stopped"
    /\ redis = None
    /\ web_resource = "closed"

\* C15: a step in which consume_ack or consume_delivery_report logs its
\* line changes nothing but the log: no request to RapidSMS is started or
\* issued, no send is submitted or settled, and the store, its connection,
\* the listener and the worker stay as they were.
C15_EventsOnlyLog ==
    [][event_log' # event_log =>
          /\ forwards' = forwards
          /\ requests' = requests
          /\ redis_keys' = redis_keys
          /\ redis' = redis
          /\ web_resource' = web_resource
          /\ worker' = worker
          /\ allow_replies' = allow_replies
          /\ avatar_call' = avatar_call]_vars

\* an ack and a delivery report of a sent message were handled
C15_Witness ==
    \E id \in SentMessageIds :
        /\ ack_line(id) \in event_log
        /\ delivery_report_line(id, "delivered") \in event_log
        /\ \A f \in ForwardIds : forwards[f].pc = "idle"

Rendered(r) == requests[r].state \in {"failed", "waiting", "finished"}

\* C17: a request whose body is not JSON or lacks content or to_addr ends
\* failed with no send submitted and a response that is not 200; and the
\* step in which it fails leaves every other request, the listener and the
\* worker as they were.
C17_MalformedFailsAlone ==
    /\ [](\A r \in RequestIds :
            (Rendered(r) /\ ~WellFormed(requests[r].body)) =>
                /\ requests[r].state = "failed"
                /\ requests[r].sends = <<>>
                /\ requests[r].response.code \notin {0, 200})
    /\ [][\A r \in RequestIds :
            (requests[r].state # "failed" /\ requests'[r].state = "failed") =>
                /\ \A q \in RequestIds \ {r} : requests'[q] = requests[q]
                /\ web_resource' = web_resource
                /\ worker' = worker]_vars

\* two requests are being served; the first failed on a body without
\* content and the second was answered with 200 and its message
C17_Witness ==
    /\ requests[1].state = "failed"
    /\ requests[1].body.keys = {"to_addr"}
    /\ requests[2].state = "finished"
    /\ requests[2].response.code = 200
    /\ Len(BodyOf(2)) = 1

FailsNow(f) == ~forwards[f].result.raised /\ forwards'[f].result.raised

\* C18: the step in which a forward fails with an exception raised before
\* its request is issued changes that forward only: every other forward,
\* every request and its sends, the store, the listener and the worker are
\* as before, so that they go on as they would have without it.
C18_ConfigErrorFailsOnlyThatCall ==
    [][\A f \in ForwardIds :
          FailsNow(f) =>
              /\ \A g \in ForwardIds \ {f} : forwards'[g] = forwards[g]
              /\ requests' = requests
              /\ redis_keys' = redis_keys
              /\ redis' = redis
              /\ web_resource' = web_resource
              /\ worker' = worker
              /\ allow_replies' = allow_replies
              /\ event_log' = event_log]_vars

\* after a forward failed with ConfigError another forward, still waiting
\* for RapidSMS when it did or started later, completed, and a request was
\* answered with its message
C18_Witness ==
    /\ forwards[1].pc = "done"
    /\ forwards[1].result = Raised("ConfigError")
    /\ forwards[2].pc = "done"
    /\ forwards[2].http.issued
    /\ forwards[2].result = Returned(None)
    /\ requests[1].state = "finished"
    /\ Len(BodyOf(1)) = 1
    /\ worker = "running"

\* C19: a request whose to_addr list is empty fails: it is not answered
\* with 200 and an empty array.
C19_EmptyToAddrRejected ==
    \A r \in RequestIds :
        (/\ Rendered(r)
         /\ requests[r].body.json_ok
         /\ "to_addr" \in requests[r].body.keys
         /\ requests[r].body.to_addr = <<>>)
        => /\ requests[r].state = "failed"
           /\ requests[r].response.code # 200

\* C20: a request has sends, or has had its body read, only if
\* get_avatar_id returned an identity for it; a request that was rejected
\* has no send; and the step that hands a request to
\* handle_raw_outbound_message starts from a request already authorized.
C20_SendsOnlyForAuthorized ==
    /\ [](\A r \in RequestIds :
            /\ (requests[r].sends # <<>> \/ Rendered(r))
                  => /\ requests[r].avatar # NoResult
                     /\ ~requests[r].avatar.raised
            /\ (requests[r].avatar.raised \/ requests[r].state = "unauthorized")
                  => /\ requests[r].sends = <<>>
                     /\ requests[r].state = "unauthorized"
                     /\ requests[r].response.code = 401)
    /\ [][\A r \in RequestIds :
            (~Rendered(r) /\ Rendered(r)')
            => (requests[r].state = "authorized" /\ ~requests[r].avatar.raised)]_vars

\* one request rejected with 401 and no send while another, authorized as
\* user u, has a send with the backbone
C20_Witness ==
    \E r, q \in RequestIds :
        /\ requests[r].state = "unauthorized"
        /\ requests[r].avatar = Raised("UnauthorizedLogin")
        /\ requests[r].sends = <<>>
        /\ requests[q].avatar = Returned("u")
        /\ Len(requests[q].sends) = 1

====
